---- MODULE Spec2Model ----
(***************************************************************************)
(* Model of the pricing and matching engine of minhmom_app                 *)
(* (backend/app/utils.py): compute_min_cost, _tokenize and                 *)
(* pick_item_for_comment.  The functions are pure; each one is an operator *)
(* computed the way the code computes it, and an action applies it to      *)
(* inputs drawn from bounded sets.                                         *)
(*                                                                         *)
(* Python values are tagged records [tag, n]:                              *)
(*   "int"     the integer n                                               *)
(*   "numstr"  a string holding the decimal digits of n ("2")              *)
(*   "str"     a string that is not a number ("abc")                       *)
(*   "none"    None                                                        *)
(*   "missing" the key is absent from the dict                             *)
(* Sequences are 1-based here and 0-based in the code; -1 stays the        *)
(* "no choice" marker of the choice array.                                 *)
(***************************************************************************)
EXTENDS Integers, Sequences, FiniteSets, TLC

VARIABLES
    prices, qty, price_info,        \* compute_min_cost: arguments and result
    items, comment_type, picked,    \* pick_item_for_comment: arguments and result
    tok_input, tok_result,          \* _tokenize: argument and result
    orders, current_year, current_month, summary,
                                    \* get_dashboard_data: the orders read, the
                                    \* clock and the response
    post_items, post_orders, orders_last_update_at, now, request, response,
                                    \* create_order: the post stored (its items,
                                    \* orders and orders_last_update_at), the
                                    \* clock, the request body and the response
    pushing,                        \* the documents of the create_order requests
                                    \* that wait for their update_one
    group_orders, uid, user_orders, \* get_orders_by_user: the orders of the
                                    \* group's posts, the uid and the response
    posts, posts_after, user_role, post_request, post_response,
                                    \* list_posts, get_post, patch_post: the posts
                                    \* stored before and after the request, the
                                    \* caller's role, the request, the response
    statuses, inserting, status_request, status_response
                                    \* the statuses collection, the bodies of the
                                    \* create_status requests that wait for their
                                    \* insert_one, the request answered last and
                                    \* its response

priceVars == <<prices, qty, price_info>>
pickVars == <<items, comment_type, picked>>
tokVars == <<tok_input, tok_result>>
dashVars == <<orders, current_year, current_month, summary>>
orderVars == <<post_items, post_orders, orders_last_update_at, now, request, response,
               pushing>>
vars == <<prices, qty, price_info, items, comment_type, picked, tok_input, tok_result,
          orders, current_year, current_month, summary,
          post_items, post_orders, orders_last_update_at, now, request, response,
          pushing,
          group_orders, uid, user_orders,
          posts, posts_after, user_role, post_request, post_response,
          statuses, inserting, status_request, status_response>>
statusVars == <<statuses, inserting, status_request, status_response>>
postVars == <<posts, posts_after, user_role, post_request, post_response>>
byUserVars == <<group_orders, uid, user_orders>>

\* ------------------------------------------------------------------ bounds
MaxPacks == 2
MaxPackQty == 4
MaxPrice == 3
MaxQty == 5
MaxItems == 3
MaxStrLen == 3
MaxOrders == 2
MaxCatalog == 2
MaxGroupOrders == 2
MaxPosts == 2

\* ------------------------------------------------------------ input values
IntV(n) == [tag |-> "int", n |-> n]
NumStrV(n) == [tag |-> "numstr", n |-> n]
StrV == [tag |-> "str", n |-> 0]
NoneV == [tag |-> "none", n |-> 0]
MissingV == [tag |-> "missing", n |-> 0]

Dict(q, c) == [isdict |-> TRUE, qty |-> q, bundle_price |-> c]
NonDict == [isdict |-> FALSE, qty |-> MissingV, bundle_price |-> MissingV]

\* Packs whose two fields are integers, malformed ones (qty 0, price -1)
\* included.
NumericEntries == {Dict(IntV(q), IntV(c)) : q \in 0..MaxPackQty, c \in -1..MaxPrice}

\* Entries that are not records, or whose fields are absent, null or strings.
OddEntries ==
    {NonDict,
     Dict(MissingV, IntV(1)), Dict(IntV(1), MissingV),
     Dict(NoneV, IntV(1)), Dict(IntV(1), NoneV),
     Dict(StrV, IntV(1)), Dict(IntV(1), StrV),
     Dict(NumStrV(2), NumStrV(1))}

Entries == NumericEntries \cup OddEntries

SeqsUpTo(S, n) == UNION {[1..k -> S] : k \in 0..n}

\* ------------------------------------------------------------ compute_min_cost
\* INF = 10**18 in the code: a cost no combination reaches.  TLC's integers
\* are 32 bits wide, so the model takes 10**9, which is likewise above every
\* sum of prices the bounds allow (at most MaxQty * MaxPrice).
INF == 1000000000

\* p.get(key, 0)
GetOr0(v) == IF v.tag = "missing" THEN IntV(0) ELSE v

\* int(v): defined on integers and numeric strings, raises on None
\* (TypeError) and on other strings (ValueError).
IntRaises(v) == v.tag \in {"none", "str"}
IntConv(v) == v.n

\* The loop of lines 93-99 reaches entry p's conversions iff p is a dict.
EntryRaises(p) ==
    /\ p.isdict
    /\ \/ IntRaises(GetOr0(p.qty))
       \/ IntRaises(GetOr0(p.bundle_price))

\* EntryValid without the test of the price (c >= 0 dropped).
EntryValidAnyPrice(p) ==
    /\ p.isdict
    /\ IntConv(GetOr0(p.qty)) > 0

\* if q > 0 and c >= 0
EntryValid(p) ==
    /\ p.isdict
    /\ IntConv(GetOr0(p.qty)) > 0
    /\ IntConv(GetOr0(p.bundle_price)) >= 0

RECURSIVE CollectPacks(_, _)
CollectPacks(ps, i) ==
    IF i > Len(ps) THEN <<>>
    ELSE IF EntryValid(ps[i])
         THEN <<<<IntConv(GetOr0(ps[i].qty)), IntConv(GetOr0(ps[i].bundle_price))>>>>
              \o CollectPacks(ps, i + 1)
         ELSE CollectPacks(ps, i + 1)

\* DpInner with "pq < q" for "pq <= q": a pack as large as q is never tried.
RECURSIVE DpInnerStrictSize(_, _, _, _)
DpInnerStrictSize(st, q, packs, i) ==
    IF i > Len(packs) THEN st
    ELSE LET pq == packs[i][1]
             pc == packs[i][2]
         IN IF pq < q /\ st.dp[q - pq] + pc < st.dp[q]
            THEN DpInnerStrictSize([dp |-> [st.dp EXCEPT ![q] = st.dp[q - pq] + pc],
                                    choice |-> [st.choice EXCEPT ![q] = i]],
                                   q, packs, i + 1)
            ELSE DpInnerStrictSize(st, q, packs, i + 1)

\* DpInner without the comparison of costs: the last pack that fits wins.
RECURSIVE DpInnerLastFit(_, _, _, _)
DpInnerLastFit(st, q, packs, i) ==
    IF i > Len(packs) THEN st
    ELSE LET pq == packs[i][1]
             pc == packs[i][2]
         IN IF pq <= q /\ st.dp[q - pq] < INF
            THEN DpInnerLastFit([dp |-> [st.dp EXCEPT ![q] = st.dp[q - pq] + pc],
                                 choice |-> [st.choice EXCEPT ![q] = i]],
                                q, packs, i + 1)
            ELSE DpInnerLastFit(st, q, packs, i + 1)

\* for i, (pq, pc) in enumerate(packs): one pass over the packs for unit q.
RECURSIVE DpInner(_, _, _, _)
DpInner(st, q, packs, i) ==
    IF i > Len(packs) THEN st
    ELSE LET pq == packs[i][1]
             pc == packs[i][2]
         IN IF pq <= q /\ st.dp[q - pq] + pc < st.dp[q]
            THEN DpInner([dp |-> [st.dp EXCEPT ![q] = st.dp[q - pq] + pc],
                          choice |-> [st.choice EXCEPT ![q] = i]],
                         q, packs, i + 1)
            ELSE DpInner(st, q, packs, i + 1)

\* for q in range(1, qty + 1)
RECURSIVE DpOuter(_, _, _, _)
DpOuter(st, q, n, packs) ==
    IF q > n THEN st
    ELSE DpOuter(DpInner(st, q, packs, 1), q + 1, n, packs)

DpTable(packs, n) ==
    DpOuter([dp |-> [q \in 0..n |-> IF q = 0 THEN 0 ELSE INF],
             choice |-> [q \in 0..n |-> -1]],
            1, n, packs)

\* CountsAdd that never merges: one entry per step of the walk.
CountsAddNoMerge(counts, i) == Append(counts, <<i, 1>>)

\* counts[i] = counts.get(i, 0) + 1 ; counts keeps insertion order.
CountsAdd(counts, i) ==
    IF \E k \in 1..Len(counts) : counts[k][1] = i
    THEN [k \in 1..Len(counts) |->
            IF counts[k][1] = i THEN <<i, counts[k][2] + 1>> ELSE counts[k]]
    ELSE Append(counts, <<i, 1>>)

\* while q > 0 and choice[q] != -1
RECURSIVE WalkBack(_, _, _, _)
WalkBack(choice, packs, q, counts) ==
    IF q > 0 /\ choice[q] # -1
    THEN WalkBack(choice, packs, q - packs[choice[q]][1], CountsAdd(counts, choice[q]))
    ELSE counts

PackEntry(pq, cnt, pc) ==
    [qty |-> pq, count |-> cnt, bundle_price |-> pc, subtotal |-> cnt * pc]

OutPacks(counts, packs) ==
    [k \in 1..Len(counts) |->
        PackEntry(packs[counts[k][1]][1], counts[k][2], packs[counts[k][1]][2])]

RECURSIVE SumSubtotals(_, _)
SumSubtotals(out, k) ==
    IF k > Len(out) THEN 0 ELSE out[k].subtotal + SumSubtotals(out, k + 1)

\* InsertByQty with the sort left out: entries stay in insertion order.
InsertByQtyAppend(sorted, e) == Append(sorted, e)

\* list.sort(key=qty): stable, ascending.
InsertByQty(sorted, e) ==
    LET pos == Cardinality({k \in 1..Len(sorted) : sorted[k].qty <= e.qty})
    IN [k \in 1..(Len(sorted) + 1) |->
          IF k <= pos THEN sorted[k]
          ELSE IF k = pos + 1 THEN e
          ELSE sorted[k - 1]]

RECURSIVE SortByQty(_, _)
SortByQty(out, k) ==
    IF k = 0 THEN <<>> ELSE InsertByQty(SortByQty(out, k - 1), out[k])

\* min(range(len(packs)), key=pc/pq): the first index of least ratio.  The
\* quotients are compared by cross-multiplication (pq > 0).
RatioLess(a, b) == a[2] * b[1] < b[2] * a[1]

\* BestRatioIndex keyed on the price alone instead of price per unit.
BestRatioIndexByPrice(packs) ==
    CHOOSE i \in 1..Len(packs) :
        /\ \A j \in 1..Len(packs) : packs[j][2] >= packs[i][2]
        /\ \A j \in 1..(i - 1) : packs[j][2] > packs[i][2]

BestRatioIndex(packs) ==
    CHOOSE i \in 1..Len(packs) :
        /\ \A j \in 1..Len(packs) : ~RatioLess(packs[j], packs[i])
        /\ \A j \in 1..(i - 1) : RatioLess(packs[i], packs[j])

\* CeilDiv rounding down.
CeilDivFloor(n, pq) == n \div pq

CeilDiv(n, pq) == (n + pq - 1) \div pq

Returned(total, packs, method) ==
    [kind |-> "return", total |-> total, packs |-> packs, method |-> method]
Raised == [kind |-> "raise", total |-> 0, packs |-> <<>>, method |-> "none"]
Pending == [kind |-> "pending", total |-> 0, packs |-> <<>>, method |-> "none"]

FallbackNone == Returned(0, <<>>, "fallback-none")

DpResult(packs, n) ==
    LET st == DpTable(packs, n)
    IN IF st.dp[n] < INF
       THEN LET counts == WalkBack(st.choice, packs, n, <<>>)
                out == OutPacks(counts, packs)
            IN Returned(SumSubtotals(out, 1), SortByQty(out, Len(out)), "dp")
       ELSE LET b == BestRatioIndex(packs)
                pq == packs[b][1]
                pc == packs[b][2]
                cnt == CeilDiv(n, pq)
            IN Returned(cnt * pc, <<PackEntry(pq, cnt, pc)>>, "greedy-ceil")

compute_min_cost(ps, n) ==
    IF Len(ps) = 0 \/ n <= 0 THEN FallbackNone
    ELSE IF \E i \in 1..Len(ps) : EntryRaises(ps[i]) THEN Raised
    ELSE LET packs == CollectPacks(ps, 1)
         IN IF Len(packs) = 0 THEN FallbackNone
            ELSE DpResult(packs, n)


\* ------------------------------------------------------------------ _tokenize
\* A string is a sequence of characters.  The characters of the model, one
\* of each class the code tells apart (names stand for the non-ASCII ones):
\*   "a" "b" "c"   lower-case ASCII letters        "1"  a digit
\*   "A" "B"       upper-case ASCII letters        "-"  the hyphen
\*   "d_stroke"    U+0111, in the pattern's list   " "  whitespace
\*   "D_STROKE"    U+0110, its upper case          "!" ","  punctuation
\*   "y_acute"     U+00FD, a letter that the pattern does not list
Chars == {"a", "b", "c", "A", "B", "1", "-", " ", "!", ",",
          "d_stroke", "D_STROKE", "y_acute"}

\* str.lower()
Lower(c) ==
    CASE c = "A" -> "a"
      [] c = "B" -> "b"
      [] c = "D_STROKE" -> "d_stroke"
      [] OTHER -> c

IsSpace(c) == c = " "

\* Kept admitting every letter, listed in the pattern or not.
KeptAnyLetter(c) ==
    c \in {"a", "b", "c", "1", "d_stroke", "y_acute", "-"} \/ IsSpace(c)

\* The class [a-z0-9...\s-] of the pattern.
Kept(c) == c \in {"a", "b", "c", "1", "d_stroke", "-"} \/ IsSpace(c)

\* re.sub(r"[^...]", " ", s.lower())
Cleaned(str) == [i \in 1..Len(str) |-> IF Kept(Lower(str[i])) THEN Lower(str[i]) ELSE " "]

\* s.split(): the maximal runs of non-whitespace, left to right; cur is the
\* run being read.
RECURSIVE Split(_, _, _)
Split(str, i, cur) ==
    IF i > Len(str) THEN (IF cur = <<>> THEN <<>> ELSE <<cur>>)
    ELSE IF IsSpace(str[i])
         THEN (IF cur = <<>> THEN <<>> ELSE <<cur>>) \o Split(str, i + 1, <<>>)
         ELSE Split(str, i + 1, Append(cur, str[i]))

\* [t for t in s.split() if t]
Tokenize(str) == SelectSeq(Split(Cleaned(str), 1, <<>>), LAMBDA t : t # <<>>)

TokenSet(str) == {Tokenize(str)[k] : k \in 1..Len(Tokenize(str))}

\* _tokenize(s) for an Optional[str] argument: s.lower() on None raises
\* AttributeError.
TokPending == [kind |-> "pending", tokens |-> <<>>]
TokRaised == [kind |-> "raise", tokens |-> <<>>]
TokReturned(toks) == [kind |-> "return", tokens |-> toks]

tokenize(t) == IF t.tag = "none" THEN TokRaised ELSE TokReturned(Tokenize(t.s))

\* ------------------------------------------------------ pick_item_for_comment
\* An Optional[str]: None or a string.
Text(str) == [tag |-> "str", s |-> str]
NoText == [tag |-> "none", s |-> <<>>]

\* An item of the list: a dict or not, truthy or not (an empty dict and a
\* null are falsy), and what it.get("type") yields (None when the key is
\* absent).
Item(d, t, ty) == [isdict |-> d, truthy |-> t, type |-> ty]

\* The result: the position of the returned item, 0 for None.
NoCall == [kind |-> "pending", index |-> 0]
ReturnItem(i) == [kind |-> "return", index |-> i]

\* "not x" of an Optional[str]
Falsy(t) == t.tag = "none" \/ t.s = <<>>

\* it_type = (it.get("type") or "") if isinstance(it, dict) else ""
ItType(it) == IF it.isdict /\ ~Falsy(it.type) THEN it.type.s ELSE <<>>

\* score = len(ctoks & it_toks)
Score(ctoks, it) == Cardinality(ctoks \cap TokenSet(ItType(it)))

\* PickLoop with ">=" for ">": the last item of greatest score wins.
RECURSIVE PickLoopLastMax(_, _, _, _, _)
PickLoopLastMax(its, ctoks, i, best, best_score) ==
    IF i > Len(its) THEN best
    ELSE IF Score(ctoks, its[i]) >= best_score
         THEN PickLoopLastMax(its, ctoks, i + 1, i, Score(ctoks, its[i]))
         ELSE PickLoopLastMax(its, ctoks, i + 1, best, best_score)

\* for it in items: ... if score > best_score
RECURSIVE PickLoop(_, _, _, _, _)
PickLoop(its, ctoks, i, best, best_score) ==
    IF i > Len(its) THEN best
    ELSE IF Score(ctoks, its[i]) > best_score
         THEN PickLoop(its, ctoks, i + 1, i, Score(ctoks, its[i]))
         ELSE PickLoop(its, ctoks, i + 1, best, best_score)

\* return best or items[0]
BestOrFirst(its, best) == IF best # 0 /\ its[best].truthy THEN best ELSE 1

\* pick_item_for_comment answering None when no type is requested.
pick_item_for_commentNoneWithoutType(its, ct) ==
    IF Len(its) = 0 THEN ReturnItem(0)
    ELSE IF Len(its) = 1 THEN ReturnItem(1)
    ELSE IF Falsy(ct) THEN ReturnItem(0)
    ELSE ReturnItem(BestOrFirst(its, PickLoop(its, TokenSet(ct.s), 1, 0, -1)))

\* pick_item_for_comment answering the last item when no type is requested.
pick_item_for_commentLastWithoutType(its, ct) ==
    IF Len(its) = 0 THEN ReturnItem(0)
    ELSE IF Len(its) = 1 THEN ReturnItem(1)
    ELSE IF Falsy(ct) THEN ReturnItem(Len(its))
    ELSE ReturnItem(BestOrFirst(its, PickLoop(its, TokenSet(ct.s), 1, 0, -1)))

pick_item_for_comment(its, ct) ==
    IF Len(its) = 0 THEN ReturnItem(0)
    ELSE IF Len(its) = 1 THEN ReturnItem(1)
    ELSE IF Falsy(ct) THEN ReturnItem(1)
    ELSE ReturnItem(BestOrFirst(its, PickLoop(its, TokenSet(ct.s), 1, 0, -1)))

\* ------------------------------------------------------------------ pricing
\* Each specification leaves the variables of the other functions at rest.
PriceIdle == prices = <<>> /\ qty = 0 /\ price_info = Pending
PickIdle == items = <<>> /\ comment_type = NoText /\ picked = NoCall
TokIdle == tok_input = NoText /\ tok_result = TokPending


\* get_dashboard_data not called, nothing read.
NoSummary == [kind |-> "pending"]

DashIdle ==
    /\ orders = <<>>
    /\ current_year = 2025
    /\ current_month = 1
    /\ summary = NoSummary

\* create_order not called: no post items, no request.
NoRequest == [kind |-> "none"]
NoResponse == [kind |-> "pending"]

OrderIdle ==
    /\ post_items = <<>>
    /\ post_orders = <<>>
    /\ orders_last_update_at = 0
    /\ now = 1
    /\ request = NoRequest
    /\ response = NoResponse
    /\ pushing = {}

\* get_orders_by_user not called.
NotAsked == [kind |-> "pending", orders |-> <<>>]

ByUserIdle == group_orders = <<>> /\ uid = <<>> /\ user_orders = NotAsked

\* No request on the posts.
NoPostRequest == [op |-> "none"]
NoPostResponse == [kind |-> "pending"]

PostIdle ==
    /\ posts = <<>>
    /\ posts_after = <<>>
    /\ user_role = "admin"
    /\ post_request = NoPostRequest
    /\ post_response = NoPostResponse

NoStatusRequest == [op |-> "none"]
NoStatusResponse == [kind |-> "pending"]

StatusIdle ==
    /\ statuses = <<>>
    /\ inserting = {}
    /\ status_request = NoStatusRequest
    /\ status_response = NoStatusResponse

InitPrice ==
    /\ prices \in SeqsUpTo(Entries, MaxPacks)
    /\ qty \in -1..MaxQty
    /\ price_info = Pending
    /\ PickIdle
    /\ TokIdle
    /\ DashIdle
    /\ OrderIdle
    /\ ByUserIdle
    /\ PostIdle
    /\ StatusIdle

ComputeMinCost ==
    /\ price_info.kind = "pending"
    /\ price_info' = compute_min_cost(prices, qty)
    /\ UNCHANGED <<prices, qty>>
    /\ UNCHANGED <<pickVars, tokVars, dashVars, orderVars, byUserVars, postVars, statusVars>>

NextPrice == ComputeMinCost

SpecPrice == InitPrice /\ [][NextPrice]_vars

\* ------------------------------------------------- reference definitions
\* What the claims speak of, stated without the dynamic program: the packs
\* of a result, their quantity and price, and the least price of a
\* combination found by enumerating the counts of each pack.
IsNumeric(p) == p.isdict /\ p.qty.tag = "int" /\ p.bundle_price.tag = "int"
WellFormed(p) == IsNumeric(p) /\ p.qty.n > 0 /\ p.bundle_price.n >= 0
NumericList(ps) == \A i \in 1..Len(ps) : IsNumeric(ps[i])
WellFormedList(ps) == \A i \in 1..Len(ps) : WellFormed(ps[i])
WellFormedPacks(ps) == {<<ps[i].qty.n, ps[i].bundle_price.n>> : i \in {j \in 1..Len(ps) : WellFormed(ps[j])}}

DropMalformed(ps) ==
    SelectSeq(ps, LAMBDA p : ~(p.qty.n <= 0 \/ p.bundle_price.n < 0))

SetMin(S) == CHOOSE x \in S : \A y \in S : x <= y

RECURSIVE CoveredUnits(_, _)
CoveredUnits(out, k) ==
    IF k > Len(out) THEN 0 ELSE out[k].count * out[k].qty + CoveredUnits(out, k + 1)

RECURSIVE PriceOf(_, _)
PriceOf(out, k) ==
    IF k > Len(out) THEN 0 ELSE out[k].count * out[k].bundle_price + PriceOf(out, k + 1)

\* Prices of the combinations k1*p1 + ... + kn*pn of the packs of P whose
\* quantities sum exactly to rem.
RECURSIVE ExactPrices(_, _)
ExactPrices(P, rem) ==
    IF P = {} THEN (IF rem = 0 THEN {0} ELSE {})
    ELSE LET p == CHOOSE x \in P : TRUE
         IN UNION {{k * p[2] + c : c \in ExactPrices(P \ {p}, rem - k * p[1])} :
                     k \in 0..(rem \div p[1])}

\* Prices of the combinations covering rem units or more (with no pack added
\* once rem is covered: prices are not negative).
RECURSIVE CoverPrices(_, _)
CoverPrices(P, rem) ==
    IF rem <= 0 THEN {0}
    ELSE IF P = {} THEN {}
    ELSE LET p == CHOOSE x \in P : TRUE
         IN UNION {{k * p[2] + c : c \in CoverPrices(P \ {p}, rem - k * p[1])} :
                     k \in 0..((rem + p[1] - 1) \div p[1])}

HasExact == ExactPrices(WellFormedPacks(prices), qty) # {}
MinExact == SetMin(ExactPrices(WellFormedPacks(prices), qty))
MinCover == SetMin(CoverPrices(WellFormedPacks(prices), qty))

Called == price_info.kind # "pending"
IsCombinationOf(out, P) ==
    \A k \in 1..Len(out) : <<out[k].qty, out[k].bundle_price>> \in P /\ out[k].count >= 1

\* C1: for a list of valid packs and a qty > 0 that some combination of the
\* packs reaches exactly, the method is "dp", the returned packs sum exactly
\* to qty and total is the least price of an exact combination.
C1_ExactOptimal ==
    (/\ Called
     /\ WellFormedList(prices)
     /\ qty > 0
     /\ HasExact)
    => /\ price_info.kind = "return"
       /\ price_info.method = "dp"
       /\ CoveredUnits(price_info.packs, 1) = qty
       /\ price_info.total = MinExact

C1_Witness ==
    /\ Called
    /\ WellFormedList(prices)
    /\ Len(prices) = 2
    /\ price_info.method = "dp"
    /\ Len(price_info.packs) = 2
    /\ price_info.total = MinExact
    /\ price_info.total > 0

\* C2 as stated: for a non-empty list of valid packs and qty > 0, total is
\* the least price over the combinations covering at least qty units.
C2_CoverOptimal ==
    (/\ Called
     /\ Len(prices) > 0
     /\ WellFormedList(prices)
     /\ qty > 0)
    => /\ price_info.kind = "return"
       /\ price_info.total = MinCover
       /\ IsCombinationOf(price_info.packs, WellFormedPacks(prices))
       /\ CoveredUnits(price_info.packs, 1) >= qty
       /\ PriceOf(price_info.packs, 1) = price_info.total

\* C2 amended: for a non-empty list of valid packs and qty > 0 the returned
\* packs are a combination of the given packs that covers at least qty units
\* and costs total; total is the least price over the combinations summing
\* exactly to qty when there is one, and it is never below the least price
\* over the covering combinations (a cheaper combination with surplus is not
\* looked for).
C2_ExactOptimalCovering ==
    (/\ Called
     /\ Len(prices) > 0
     /\ WellFormedList(prices)
     /\ qty > 0)
    => /\ price_info.kind = "return"
       /\ IsCombinationOf(price_info.packs, WellFormedPacks(prices))
       /\ CoveredUnits(price_info.packs, 1) >= qty
       /\ PriceOf(price_info.packs, 1) = price_info.total
       /\ price_info.total >= MinCover
       /\ (HasExact
             => price_info.total = MinExact)

\* An exact combination exists and a combination with surplus is cheaper.
C2_Witness ==
    /\ Called
    /\ WellFormedList(prices)
    /\ qty > 0
    /\ price_info.method = "dp"
    /\ price_info.total = MinExact
    /\ price_info.total > MinCover

\* C3: every result whose method is not "fallback-none" covers at least the
\* requested qty, every entry has subtotal = count * bundle_price, and the
\* subtotals sum to total, which is a non-negative integer.
C3_ResultInvariant ==
    (price_info.kind = "return" /\ price_info.method # "fallback-none")
    => /\ CoveredUnits(price_info.packs, 1) >= qty
       /\ \A k \in 1..Len(price_info.packs) :
             price_info.packs[k].subtotal
                = price_info.packs[k].count * price_info.packs[k].bundle_price
       /\ SumSubtotals(price_info.packs, 1) = price_info.total
       /\ price_info.total \in Nat

C3_Witness ==
    /\ price_info.kind = "return"
    /\ price_info.method = "greedy-ceil"
    /\ CoveredUnits(price_info.packs, 1) > qty
    /\ price_info.total > 0

\* C4: on packs with numeric fields the result is {total 0, packs [],
\* "fallback-none"} exactly when qty <= 0 or no pack of the list is valid
\* (qty > 0 and bundle_price >= 0); otherwise the method is "dp" or
\* "greedy-ceil".
C4_FallbackNoneIff ==
    (Called /\ NumericList(prices))
    => /\ price_info.kind = "return"
       /\ (price_info = FallbackNone)
             <=> (qty <= 0 \/ WellFormedPacks(prices) = {})
       /\ (price_info # FallbackNone) => price_info.method \in {"dp", "greedy-ceil"}
       /\ (price_info.method = "fallback-none") => price_info = FallbackNone

\* A non-empty list with only malformed packs and a positive qty.
C4_Witness ==
    /\ Called
    /\ NumericList(prices)
    /\ Len(prices) = 2
    /\ qty > 0
    /\ WellFormedPacks(prices) = {}
    /\ price_info = FallbackNone

\* C5: compute_min_cost never raises, whatever the entries of the list are.
C5_NeverRaises == price_info.kind # "raise"

\* C6: with a valid pack, qty > 0 and no exact combination, the method is
\* "greedy-ceil" with a single entry: a valid pack of least price per unit,
\* count = ceil(qty / pack qty), total = count * bundle_price.
C6_GreedyCeil ==
    (/\ Called
     /\ NumericList(prices)
     /\ qty > 0
     /\ WellFormedPacks(prices) # {}
     /\ ~HasExact)
    => /\ price_info.kind = "return"
       /\ price_info.method = "greedy-ceil"
       /\ Len(price_info.packs) = 1
       /\ LET e == price_info.packs[1]
          IN /\ <<e.qty, e.bundle_price>> \in WellFormedPacks(prices)
             /\ \A p \in WellFormedPacks(prices) :
                   e.bundle_price * p[1] <= p[2] * e.qty
             /\ e.count * e.qty >= qty
             /\ (e.count - 1) * e.qty < qty
             /\ e.subtotal = e.count * e.bundle_price
             /\ price_info.total = e.count * e.bundle_price

\* Two valid packs of different price per unit, the dearer pack being the
\* cheaper per unit, and a qty no combination reaches.
C6_Witness ==
    /\ Called
    /\ NumericList(prices)
    /\ price_info.method = "greedy-ceil"
    /\ Cardinality(WellFormedPacks(prices)) = 2
    /\ \E p \in WellFormedPacks(prices) :
          /\ p[2] < price_info.packs[1].bundle_price
          /\ price_info.packs[1].bundle_price * p[1] < p[2] * price_info.packs[1].qty
    /\ price_info.packs[1].count >= 2

\* C7: on packs with numeric fields the result equals the result for the list
\* with every pack of qty <= 0 or bundle_price < 0 removed, and no such pack
\* appears among the returned packs.
C7_MalformedDiscarded ==
    (Called /\ NumericList(prices))
    => /\ price_info = compute_min_cost(DropMalformed(prices), qty)
       /\ \A k \in 1..Len(price_info.packs) :
             /\ price_info.packs[k].qty > 0
             /\ price_info.packs[k].bundle_price >= 0
             /\ <<price_info.packs[k].qty, price_info.packs[k].bundle_price>>
                   \in WellFormedPacks(prices)

\* A malformed pack listed before a valid one that is used.
C7_Witness ==
    /\ Called
    /\ NumericList(prices)
    /\ Len(prices) = 2
    /\ ~WellFormed(prices[1])
    /\ WellFormed(prices[2])
    /\ price_info.method = "dp"
    /\ Len(DropMalformed(prices)) = 1

\* C8: in every "dp" result no two entries describe the same (qty,
\* bundle_price) pack, every count is at least 1 and the entries are in
\* ascending order of qty.
C8_DpAggregatedSorted ==
    (price_info.kind = "return" /\ price_info.method = "dp")
    => LET out == price_info.packs
       IN /\ \A j, k \in 1..Len(out) :
                (j # k) => <<out[j].qty, out[j].bundle_price>>
                              # <<out[k].qty, out[k].bundle_price>>
          /\ \A k \in 1..Len(out) : out[k].count >= 1
          /\ \A j, k \in 1..Len(out) : (j < k) => out[j].qty <= out[k].qty

\* The larger pack is listed first and both packs are used, one of them twice.
C8_Witness ==
    /\ price_info.method = "dp"
    /\ Len(price_info.packs) = 2
    /\ Len(prices) = 2
    /\ NumericList(prices)
    /\ prices[1].qty.n > prices[2].qty.n
    /\ \E k \in 1..2 : price_info.packs[k].count >= 2

\* ----------------------------------------------------------------- matching
\* Type labels of the items and requested types.
TypeLabels ==
    {<<>>,
     <<"a">>,
     <<"b">>,
     <<"a", " ", "b">>,
     <<"B", ",", "c">>,
     <<"b", "-", "a">>}

RequestedTypes ==
    {<<>>,
     <<" ">>,
     <<"!">>,
     <<"a">>,
     <<"A", " ", "b">>,
     <<"c", "!", "b", " ", "b">>,
     <<"a", "-", "b", " ", "a">>,
     <<"a", " ", "b", " ", "c">>,
     <<"d_stroke">>}

ItemValues ==
    {Item(TRUE, TRUE, Text(l)) : l \in TypeLabels}
    \cup {Item(TRUE, TRUE, NoText), Item(TRUE, FALSE, NoText), Item(FALSE, TRUE, NoText)}

InitPick ==
    /\ items \in SeqsUpTo(ItemValues, MaxItems)
    /\ comment_type \in {NoText} \cup {Text(r) : r \in RequestedTypes}
    /\ picked = NoCall
    /\ PriceIdle
    /\ TokIdle
    /\ DashIdle
    /\ OrderIdle
    /\ ByUserIdle
    /\ PostIdle
    /\ StatusIdle

PickItemForComment ==
    /\ picked.kind = "pending"
    /\ picked' = pick_item_for_comment(items, comment_type)
    /\ UNCHANGED <<items, comment_type>>
    /\ UNCHANGED <<priceVars, tokVars, dashVars, orderVars, byUserVars, postVars, statusVars>>

NextPick == PickItemForComment

SpecPick == InitPick /\ [][NextPick]_vars

\* The score of the claims: the number of tokens the requested type and the
\* item's type label have in common.
Overlap(i) == Cardinality(TokenSet(comment_type.s) \cap TokenSet(ItType(items[i])))
Picked == picked.kind = "return"

\* C9: for two or more items and a non-empty requested type the result is
\* the item of greatest token overlap with the requested type, the earliest
\* of them on a tie, hence the first item when every overlap is zero.
C9_FirstMaxOverlap ==
    (Picked /\ Len(items) >= 2 /\ ~Falsy(comment_type))
    => /\ picked.index \in 1..Len(items)
       /\ \A j \in 1..Len(items) : Overlap(j) <= Overlap(picked.index)
       /\ \A j \in 1..(picked.index - 1) : Overlap(j) < Overlap(picked.index)
       /\ (\A j \in 1..Len(items) : Overlap(j) = 0) => picked.index = 1

\* Three items, the last two tied at the greatest overlap of two tokens: the
\* second one is returned.
C9_Witness ==
    /\ Picked
    /\ Len(items) = 3
    /\ ~Falsy(comment_type)
    /\ Overlap(1) = 1
    /\ Overlap(2) = 2
    /\ Overlap(3) = 2
    /\ picked.index = 2

\* C10: the result is None exactly when the list is empty; for a non-empty
\* list it is an element of the list, whatever the requested type.
C10_NoneIffEmpty ==
    Picked => /\ (picked.index = 0) <=> (Len(items) = 0)
              /\ picked.index \in 0..Len(items)

\* Several items, none of which matches, and an absent requested type.
C10_Witness ==
    /\ Picked
    /\ Len(items) >= 2
    /\ comment_type = NoText
    /\ ~items[1].truthy
    /\ picked.index = 1

\* C11: positional default.  When the list has exactly one entry, or the
\* requested type is empty or absent (and there is an item to return), the
\* result is items[0], whatever the type labels are.
C11_PositionalDefault ==
    (Picked /\ Len(items) >= 1 /\ (Len(items) = 1 \/ Falsy(comment_type)))
    => picked.index = 1

\* No type is requested and a later item carries a label while the first
\* carries none.
C11_Witness ==
    /\ Picked
    /\ Len(items) = 3
    /\ comment_type = Text(<<>>)
    /\ ItType(items[1]) = <<>>
    /\ ItType(items[3]) # <<>>
    /\ picked.index = 1

\* ---------------------------------------------------------------- tokenizing
InitTok ==
    /\ tok_input \in {NoText} \cup {Text(str) : str \in SeqsUpTo(Chars, MaxStrLen)}
    /\ tok_result = TokPending
    /\ PriceIdle
    /\ PickIdle
    /\ DashIdle
    /\ OrderIdle
    /\ ByUserIdle
    /\ PostIdle
    /\ StatusIdle

TokenizeText ==
    /\ tok_result.kind = "pending"
    /\ tok_result' = tokenize(tok_input)
    /\ UNCHANGED tok_input
    /\ UNCHANGED <<priceVars, pickVars, dashVars, orderVars, byUserVars, postVars, statusVars>>

NextTok == TokenizeText

SpecTok == InitTok /\ [][NextTok]_vars

\* What the claims call the allowed set, lower case and upper case.
TokenChars == {"a", "b", "c", "1", "d_stroke", "-"}
UpperChars == {"A", "B", "D_STROKE"}
LowerCaseOf(c) ==
    IF c = "A" THEN "a" ELSE IF c = "B" THEN "b"
    ELSE IF c = "D_STROKE" THEN "d_stroke" ELSE c
InToken(str, i) == LowerCaseOf(str[i]) \in TokenChars

RECURSIVE Flatten(_, _)
Flatten(toks, k) == IF k > Len(toks) THEN <<>> ELSE toks[k] \o Flatten(toks, k + 1)

\* The characters of str that belong to tokens, lower-cased, in order.
RECURSIVE TokenCharsOf(_, _)
TokenCharsOf(str, i) ==
    IF i > Len(str) THEN <<>>
    ELSE IF InToken(str, i) THEN <<LowerCaseOf(str[i])>> \o TokenCharsOf(str, i + 1)
    ELSE TokenCharsOf(str, i + 1)

\* The positions where a maximal run of token characters begins.
RunStarts(str) ==
    {i \in 1..Len(str) : InToken(str, i) /\ (i = 1 \/ ~InToken(str, i - 1))}

\* C13: _tokenize never fails, and an empty or null input yields the empty
\* token sequence.
C13_TokenizeTotal ==
    (tok_result.kind # "pending")
    => /\ tok_result.kind = "return"
       /\ Falsy(tok_input) => tok_result.tokens = <<>>

\* C14: for every string every token is non-empty and made of characters of
\* the allowed set only (so it holds no whitespace and no upper-case
\* letter); every other character separates tokens, and the allowed
\* characters, diacritic letters included, are kept unchanged and in order.
C14_TokensWellFormed ==
    (tok_result.kind = "return")
    => LET toks == tok_result.tokens
           str == tok_input.s
       IN /\ \A k \in 1..Len(toks) :
                /\ toks[k] # <<>>
                /\ \A j \in 1..Len(toks[k]) :
                      /\ toks[k][j] \in TokenChars
                      /\ toks[k][j] \notin UpperChars
                      /\ toks[k][j] # " "
          /\ Flatten(toks, 1) = TokenCharsOf(str, 1)
          /\ Len(toks) = Cardinality(RunStarts(str))

\* An upper-case diacritic letter, a letter outside the list and an ASCII
\* letter: the middle one separates two tokens.
C14_Witness ==
    /\ tok_result.kind = "return"
    /\ tok_input.s = <<"D_STROKE", "y_acute", "B">>
    /\ tok_result.tokens = << <<"d_stroke">>, <<"b">> >>

\* --------------------------------------------------------- get_dashboard_data
\* (routers/dashboard.py)  Amounts are whole numbers of the currency, as the
\* totals compute_min_cost stores in price_calc are.
\* An order as the scan of lines 80-135 reads it:
\*   parsed_at     [kind |-> "absent"]  no or empty parsed_at
\*                 [kind |-> "bad"]     a string fromisoformat rejects
\*                 [kind |-> "date"]    a date, with its year and month
\*   status_code   a string, "missing" when the key is absent
\*   total         price_calc.total (MissingV when there is no price_calc)
\*   import_price  the import_price of the order's post (lines 51 and 118):
\*                 a number, or None once patch_post has stored a null.
\*                 Each order may sit in a post of its own, so any list of
\*                 (order, import_price) pairs can be read.
NoDate == [kind |-> "absent", year |-> 0, month |-> 1]
BadDate == [kind |-> "bad", year |-> 0, month |-> 1]
Date(y, mo) == [kind |-> "date", year |-> y, month |-> mo]

Order(d, st, tot, imp) ==
    [parsed_at |-> d, status_code |-> st, total |-> tot, import_price |-> imp]

Months == 1..12
KnownStatuses == {"NEW", "ORDERED", "RECEIVED", "DELIVERING", "DONE", "CANCELLED"}

\* The accumulators of lines 59-78.
ZeroAcc ==
    [total_revenue |-> 0,
     monthly_revenue |-> 0,
     monthly_revenue_data |-> [mo \in Months |-> 0],
     status_counts |-> [st \in KnownStatuses |-> 0],
     total_orders |-> 0,
     monthly_orders |-> 0]

\* Skipped without the filter on the year.
SkippedAnyYear(o, cy) == o.parsed_at.kind \in {"absent", "bad"}

\* Lines 82-97: the three "continue".
Skipped(o, cy) ==
    \/ o.parsed_at.kind = "absent"
    \/ o.parsed_at.kind = "bad"
    \/ o.parsed_at.year # cy

\* order.get("status_code", "NEW")
StatusOf(o) == IF o.status_code = "missing" THEN "NEW" ELSE o.status_code

\* Lines 113-115: the total of a present, non-zero price_calc.total, else 0.
OrderTotal(o) == IF o.total.tag = "int" /\ o.total.n # 0 THEN o.total.n ELSE 0

\* Contributes without the test of the status.
ContributesCancelledToo(o) == OrderTotal(o) > o.import_price.n

\* Contributes without the floor: every margin is added.
ContributesAnyMargin(o) == StatusOf(o) # "CANCELLED"

\* Lines 112 and 121: the order adds revenue.
Contributes(o) == StatusOf(o) # "CANCELLED" /\ OrderTotal(o) > o.import_price.n

\* BucketOf adding to the bucket of the current month.
BucketOfCurrent(o, cm) == cm

\* monthly_revenue_data[order_month - 1]
BucketOf(o, cm) == o.parsed_at.month

\* CountsStatus counting the orders that add revenue only.
CountsStatusWithRevenue(o) == StatusOf(o) \in KnownStatuses /\ Contributes(o)

\* Lines 133-135: if status in status_counts
CountsStatus(o) == StatusOf(o) \in KnownStatuses

\* InCurrentMonth taking every month for the current one.
InCurrentMonthAlways(o, cm) == TRUE

\* Lines 105 and 129: order_month == current_month
InCurrentMonth(o, cm) == o.parsed_at.month = cm

\* One pass of the loop body, lines 80-135.
ScanOrder(acc, o, cy, cm) ==
    IF Skipped(o, cy) THEN acc
    ELSE LET revenue == IF Contributes(o) THEN OrderTotal(o) - o.import_price.n ELSE 0
             inMonth == InCurrentMonth(o, cm)
         IN [total_orders |-> acc.total_orders + 1,
             monthly_orders |-> acc.monthly_orders + (IF inMonth THEN 1 ELSE 0),
             total_revenue |-> acc.total_revenue + revenue,
             monthly_revenue_data |->
                 [acc.monthly_revenue_data EXCEPT ![BucketOf(o, cm)] = @ + revenue],
             monthly_revenue |-> acc.monthly_revenue + (IF inMonth THEN revenue ELSE 0),
             status_counts |->
                 IF CountsStatus(o)
                 THEN [acc.status_counts EXCEPT ![StatusOf(o)] = @ + 1]
                 ELSE acc.status_counts]

\* for order in all_orders
RECURSIVE Scan(_, _, _, _, _)
Scan(acc, os, i, cy, cm) ==
    IF i > Len(os) THEN acc ELSE Scan(ScanOrder(acc, os[i], cy, cm), os, i + 1, cy, cm)

\* PendingOrders subtracting the DONE orders only.
PendingOrdersDoneOnly(acc) == acc.total_orders - acc.status_counts["DONE"]

\* Line 138
PendingOrders(acc) ==
    acc.total_orders - acc.status_counts["DONE"] - acc.status_counts["CANCELLED"]

\* Line 121: order_total > import_price raises TypeError when the import_price
\* of the post is None; the comparison is made for every order that is not
\* skipped and not cancelled.
ScanRaises(os, cy, cm) ==
    \E i \in 1..Len(os) :
        /\ ~Skipped(os[i], cy)
        /\ StatusOf(os[i]) # "CANCELLED"
        /\ os[i].import_price.tag = "none"

\* Lines 58-153: the scan and the response.
get_dashboard_data(os, cy, cm) ==
    LET acc == Scan(ZeroAcc, os, 1, cy, cm)
    IN IF ScanRaises(os, cy, cm) THEN [kind |-> "raise"] ELSE
       [kind |-> "return",
        totalRevenue |-> acc.total_revenue,
        monthlyRevenue |-> acc.monthly_revenue,
        totalOrders |-> acc.total_orders,
        monthlyOrders |-> acc.monthly_orders,
        monthlyRevenueData |-> acc.monthly_revenue_data,
        pendingOrders |-> PendingOrders(acc),
        statusCounts |-> acc.status_counts]

\* The clock, the dates, status codes and amounts of the orders read.
ReferenceYears == {2025}
ReferenceMonths == {1, 12}
OrderDates == {NoDate, BadDate, Date(2024, 12), Date(2025, 1), Date(2025, 12)}
OrderStatuses == {"missing", "DONE", "CANCELLED", "SHIPPED"}
\* <<price_calc.total, import_price>>: no total, break-even, margins of 1
\* and 3, and a null import_price.
OrderAmounts ==
    {<<MissingV, IntV(2)>>, <<IntV(2), IntV(2)>>, <<IntV(3), IntV(2)>>,
     <<IntV(3), IntV(0)>>, <<IntV(3), NoneV>>}

OrderValues ==
    {Order(d, st, a[1], a[2]) : d \in OrderDates, st \in OrderStatuses, a \in OrderAmounts}

InitDash ==
    /\ orders \in SeqsUpTo(OrderValues, MaxOrders)
    /\ current_year \in ReferenceYears
    /\ current_month \in ReferenceMonths
    /\ summary = NoSummary
    /\ PriceIdle
    /\ PickIdle
    /\ TokIdle
    /\ OrderIdle
    /\ ByUserIdle
    /\ PostIdle
    /\ StatusIdle

GetDashboardData ==
    /\ summary.kind = "pending"
    /\ summary' = get_dashboard_data(orders, current_year, current_month)
    /\ UNCHANGED <<orders, current_year, current_month>>
    /\ UNCHANGED <<priceVars, pickVars, tokVars, orderVars, byUserVars, postVars, statusVars>>

NextDash == GetDashboardData

SpecDash == InitDash /\ [][NextDash]_vars

\* ------------------------------------------ dashboard: what the claims state
Summarized == summary.kind = "return"

RECURSIVE SumOver(_, _)
SumOver(f, S) ==
    IF S = {} THEN 0
    ELSE LET x == CHOOSE y \in S : TRUE IN f[x] + SumOver(f, S \ {x})

\* An order of the list with a timestamp of the reference year.
CountedOrder(o) == o.parsed_at.kind = "date" /\ o.parsed_at.year = current_year
CountedIdx == {i \in 1..Len(orders) : CountedOrder(orders[i])}

\* Order total minus import cost, as the summary reads both.
Margin(o) == OrderTotal(o) - o.import_price.n
NotCancelled(o) == StatusOf(o) # "CANCELLED"
\* The revenue of the orders of S that are not cancelled and whose total is
\* above their import cost.
RevenueOver(S) ==
    SumOver([i \in 1..Len(orders) |->
                IF NotCancelled(orders[i]) /\ Margin(orders[i]) > 0
                THEN Margin(orders[i]) ELSE 0], S)
EarningIdx == {i \in CountedIdx : NotCancelled(orders[i]) /\ Margin(orders[i]) > 0}

\* C15: the 12 monthly buckets sum exactly to totalRevenue, and the bucket of
\* each month holds the revenue of the counted orders of that month: every
\* contribution goes to totalRevenue and to the bucket of the order's own month
\* only.
C15_BucketsSumToTotal ==
    Summarized =>
        /\ SumOver(summary.monthlyRevenueData, Months) = summary.totalRevenue
        /\ \A mo \in Months :
               summary.monthlyRevenueData[mo] =
                   RevenueOver({i \in CountedIdx : orders[i].parsed_at.month = mo})

\* Two orders earn revenue in different months, neither in the current month's
\* bucket alone.
C15_Witness ==
    /\ Summarized
    /\ Cardinality(EarningIdx) = 2
    /\ \E i, j \in EarningIdx : orders[i].parsed_at.month # orders[j].parsed_at.month
    /\ summary.monthlyRevenueData[1] > 0
    /\ summary.monthlyRevenueData[12] > summary.monthlyRevenueData[1]
    /\ current_month = 1

\* C16: totalRevenue is the sum of (order total - import cost) over the counted
\* orders that are not cancelled and whose total is strictly above the import
\* cost; break-even and negative-margin orders add nothing, so totalRevenue and
\* every monthly bucket are never negative.
C16_RevenueOnlyAboveCost ==
    Summarized =>
        /\ summary.totalRevenue = RevenueOver(CountedIdx)
        /\ summary.totalRevenue >= 0
        /\ \A mo \in Months : summary.monthlyRevenueData[mo] >= 0

\* A negative-margin order and a break-even order are counted next to none that
\* earns: the revenue is zero.
C16_Witness ==
    /\ Summarized
    /\ Len(orders) = 2
    /\ CountedIdx = {1, 2}
    /\ \E i \in CountedIdx : NotCancelled(orders[i]) /\ Margin(orders[i]) < 0
    /\ \E i \in CountedIdx : NotCancelled(orders[i]) /\ Margin(orders[i]) = 0
    /\ summary.totalRevenue = 0

\* The list with the amounts of every cancelled order replaced by a.
WithCancelledAmounts(os, a) ==
    [i \in 1..Len(os) |->
        IF NotCancelled(os[i]) THEN os[i]
        ELSE [os[i] EXCEPT !.total = a[1], !.import_price = a[2]]]

CancelledIdx == {i \in CountedIdx : ~NotCancelled(orders[i])}

\* C17: the revenue figures (totalRevenue, the current-month revenue, the 12
\* buckets) are the same whatever the order total and import cost of the
\* cancelled orders are, and a counted cancelled order is still counted in
\* totalOrders and in the CANCELLED status count.
C17_CancelledNoRevenue ==
    Summarized =>
        /\ \A a \in OrderAmounts :
               LET other == get_dashboard_data(WithCancelledAmounts(orders, a),
                                               current_year, current_month)
               IN /\ other.kind = "return"
                  /\ other.totalRevenue = summary.totalRevenue
                  /\ other.monthlyRevenue = summary.monthlyRevenue
                  /\ other.monthlyRevenueData = summary.monthlyRevenueData
        /\ summary.statusCounts["CANCELLED"] = Cardinality(CancelledIdx)
        /\ summary.totalOrders = Cardinality(CountedIdx)

\* A cancelled order with a positive margin is counted in the current month,
\* next to an order that earns.
C17_Witness ==
    /\ Summarized
    /\ \E i \in CancelledIdx :
           /\ Margin(orders[i]) > 0
           /\ orders[i].parsed_at.month = current_month
    /\ EarningIdx # {}
    /\ summary.statusCounts["CANCELLED"] = 1
    /\ summary.totalOrders = 2

\* C18: orders without a parseable timestamp and orders of another year are
\* counted nowhere: the response is the response for the list without them.
C18_SkippedCountNowhere ==
    summary.kind # "pending" =>
        summary = get_dashboard_data(SelectSeq(orders, CountedOrder),
                                     current_year, current_month)

\* A counted order between an order without timestamp and an order of another
\* year, or an unparseable one.
C18_Witness ==
    /\ Summarized
    /\ Len(orders) = 2
    /\ Cardinality(CountedIdx) = 1
    /\ \E i \in 1..Len(orders) :
           /\ orders[i].parsed_at.kind = "date"
           /\ orders[i].parsed_at.year # current_year
           /\ NotCancelled(orders[i])
           /\ Margin(orders[i]) > 0
    /\ summary.totalOrders = 1

UnrecognizedIdx == {i \in CountedIdx : StatusOf(orders[i]) \notin KnownStatuses}

\* C19: each of the six status counts is the number of counted orders with
\* that status code (an order without a code reads as NEW), whether or not the
\* order earned revenue; an order with another code is in totalOrders only, so
\* the six counts sum to totalOrders minus the counted orders with an
\* unrecognized code.
C19_StatusCounts ==
    Summarized =>
        /\ \A st \in KnownStatuses :
               summary.statusCounts[st] =
                   Cardinality({i \in CountedIdx : StatusOf(orders[i]) = st})
        /\ SumOver(summary.statusCounts, KnownStatuses) =
               summary.totalOrders - Cardinality(UnrecognizedIdx)

\* An order with an unrecognized code and a DONE order without revenue.
C19_Witness ==
    /\ Summarized
    /\ UnrecognizedIdx # {}
    /\ \E i \in CountedIdx \ EarningIdx : StatusOf(orders[i]) = "DONE"
    /\ summary.totalOrders = 2
    /\ summary.statusCounts["DONE"] = 1
    /\ SumOver(summary.statusCounts, KnownStatuses) = 1

\* C20: pendingOrders = totalOrders - count(DONE) - count(CANCELLED); it is
\* the number of counted orders whose status is neither DONE nor CANCELLED,
\* unrecognized codes included, and is never negative.
C20_Pending ==
    Summarized =>
        /\ summary.pendingOrders =
               summary.totalOrders - summary.statusCounts["DONE"]
                   - summary.statusCounts["CANCELLED"]
        /\ summary.pendingOrders =
               Cardinality({i \in CountedIdx :
                               StatusOf(orders[i]) \notin {"DONE", "CANCELLED"}})
        /\ summary.pendingOrders >= 0

\* A DONE order and an order with an unrecognized code: one is pending.
C20_Witness ==
    /\ Summarized
    /\ summary.totalOrders = 2
    /\ summary.statusCounts["DONE"] = 1
    /\ UnrecognizedIdx # {}
    /\ summary.pendingOrders = 1

\* ---------------------------------------------------------------- create_order
\* (routers/posts.py)  An item of a post, as the Item schema stores it: a
\* dict with name, type (Optional[str]) and prices (a list of packs).
CatalogItem(nm, ty, ps) ==
    [isdict |-> TRUE, truthy |-> TRUE, name |-> nm, type |-> ty, prices |-> ps]

\* The status codes of the statuses collection.
StatusCodes == {"NEW", "DONE"}

\* The post the requests of the model address.
PostId == "p1"

\* A quantity is a float >= 0 of the schema, counted here in halves
\* (3 halves are 1.5); int(item_qty) truncates.
Halves(h) == IntV(h)
TruncInt(q) == q.n \div 2

\* The request body (OrderIn), with the fields the handler reads: item is
\* body.item, absent or with its item_id, qty and item_type.
NoItem == [present |-> FALSE, item_id |-> NoneV, qty |-> NoneV, item_type |-> NoText]
OrderItem(id, q, ty) == [present |-> TRUE, item_id |-> id, qty |-> q, item_type |-> ty]

OrderIn(st, pid, cid, it, q, ty, up, tp) ==
    [kind |-> "body", status_code |-> st, post_id |-> pid, comment_id |-> cid,
     item |-> it, qty |-> q, type |-> ty, unit_price |-> up, total_price |-> tp,
     customer |-> TRUE]

\* The same body without body.customer (customer is whether it is given).
WithoutCustomer(body) == [body EXCEPT !.customer = FALSE]

\* Lines 404-405
ItemTypeOf(body) == IF body.item.present THEN body.item.item_type ELSE body.type
ItemQtyOf(body) == IF body.item.present THEN body.item.qty ELSE body.qty

\* "not item_qty": None or 0
NoQty(q) == q.tag = "none" \/ q.n = 0

\* ChosenIndex taking the first item always.
ChosenIndexFirst(body, its) == 1

\* Lines 411-417: the position (from 1) of chosen_item in items.
ChosenIndex(body, its) ==
    IF /\ body.item.present
       /\ body.item.item_id.tag = "int"
       /\ 0 <= body.item.item_id.n
       /\ body.item.item_id.n < Len(its)
    THEN body.item.item_id.n + 1
    ELSE 1

\* FinalUnitPrice taking the computed price always.
FinalUnitPriceComputed(body, price) ==
    IF ItemQtyOf(body).n > 0 THEN (4 * price.total) \div ItemQtyOf(body).n ELSE 0

\* Line 427: a manual unit_price, else total / item_qty (0 for no quantity).
\* Unit prices are counted in halves, as quantities are: total over h halves
\* is 4 * total / h halves, a whole number for the quantities of the model.
FinalUnitPrice(body, price) ==
    IF body.unit_price.tag # "none" THEN body.unit_price.n
    ELSE IF ItemQtyOf(body).n > 0 THEN (4 * price.total) \div ItemQtyOf(body).n
    ELSE 0

\* FinalTotalPrice taking the computed total always.
FinalTotalPriceComputed(body, price) == price.total

\* Line 428: a manual total_price, else the computed total.
FinalTotalPrice(body, price) ==
    IF body.total_price.tag # "none" THEN body.total_price.n ELSE price.total

\* Lines 432-436: the SHA-1 of post_id, comment_id, user and time, kept as the
\* values hashed.
OrderId(body, t) == <<body.post_id, body.comment_id, t>>

\* Lines 441-502: the order document, with the fields the model follows.
OrderDoc(body, chosen, price, t) ==
    [order_id |-> OrderId(body, t),
     parsed_at |-> t,
     comment_id |-> body.comment_id,
     qty |-> ItemQtyOf(body),
     type |-> ItemTypeOf(body),
     unit_price |-> FinalUnitPrice(body, price),
     total_price |-> FinalTotalPrice(body, price),
     matched_item |-> [name |-> chosen.name, type |-> chosen.type],
     price_calc |-> price,
     status_code |-> body.status_code,
     status_history |-> << [status |-> body.status_code, at |-> t] >>]

HttpError(code) == [kind |-> "error", code |-> code]
\* An exception that is no HTTPException: the request ends with status 500.
ServerError == [kind |-> "raise", code |-> 500]
Created(doc) == [kind |-> "ok", code |-> 200, order |-> doc]

\* Lines 379-420: the status the request is rejected with, 0 when it is not.
Rejection(body, its, ords) ==
    IF body.status_code \notin StatusCodes THEN 400
    ELSE IF body.post_id # PostId THEN 404
    ELSE IF /\ ~Falsy(body.comment_id)
            /\ \E i \in 1..Len(ords) : ords[i].comment_id = body.comment_id
         THEN 409
    ELSE IF Len(its) = 0 THEN 400
    ELSE IF NoQty(ItemQtyOf(body)) THEN 400
    ELSE IF ~its[ChosenIndex(body, its)].truthy THEN 400
    ELSE 0

\* Line 431: without body.customer the handler reads body.url; OrderIn has no
\* field url, so the read raises AttributeError.
ReadsUrl(body) == ~body.customer

\* Lines 423 and 441-502: the document of an accepted request.
NewOrder(body, its, t) ==
    LET chosen == its[ChosenIndex(body, its)]
        price_calc == compute_min_cost(chosen.prices, TruncInt(ItemQtyOf(body)))
    IN OrderDoc(body, chosen, price_calc, t)

\* The packs of the items of the model, and the items.
PackLists == {<<>>, <<Dict(IntV(1), IntV(2)), Dict(IntV(2), IntV(3))>>}
ItemNames == {"x", "y"}
ItemTypes == {NoText, Text(<<"a">>), Text(<<"b">>)}
CatalogItems == {CatalogItem(nm, ty, ps) : nm \in ItemNames, ty \in ItemTypes, ps \in PackLists}

\* An order stored by an earlier request, of comment "c".
EarlierOrder ==
    [order_id |-> <<PostId, Text(<<"c">>), 0>>,
     parsed_at |-> 0,
     comment_id |-> Text(<<"c">>),
     qty |-> Halves(2),
     type |-> NoText,
     unit_price |-> 0,
     total_price |-> 0,
     matched_item |-> [name |-> "x", type |-> NoText],
     price_calc |-> FallbackNone,
     status_code |-> "NEW",
     status_history |-> << [status |-> "NEW", at |-> 0] >>]

\* The request bodies of the model.
Quantities == {Halves(0), Halves(1), Halves(2), Halves(4)}
ItemIds == {NoneV, IntV(-1), IntV(0), IntV(1)}
ItemSelections ==
    {NoItem} \cup
    {OrderItem(id, q, ty) : id \in ItemIds, q \in Quantities \cup {NoneV}, ty \in ItemTypes}
CommentIds == {NoText, Text(<<"c">>)}
\* Manual prices: <<unit_price, total_price>>, each given or not.
ManualPrices == {<<NoneV, NoneV>>, <<Halves(5), NoneV>>, <<NoneV, IntV(7)>>, <<Halves(5), IntV(7)>>}
\* Requests with a known status for the post, of every selection, quantity,
\* type and manual price (qty and type are read without body.item only), and
\* requests with an unknown status or for another post.
Requests ==
    {OrderIn("NEW", PostId, cid, NoItem, q, ty, mp[1], mp[2]) :
        cid \in CommentIds, q \in Quantities, ty \in ItemTypes, mp \in ManualPrices}
    \cup
    {OrderIn("NEW", PostId, cid, it, Halves(2), NoText, mp[1], mp[2]) :
        cid \in CommentIds, it \in ItemSelections \ {NoItem}, mp \in ManualPrices}
    \cup
    {OrderIn(t[1], t[2], cid, NoItem, Halves(2), NoText, NoneV, NoneV) :
        t \in {<<"BOGUS", PostId>>, <<"NEW", "p0">>, <<"BOGUS", "p0">>}, cid \in CommentIds}
    \cup
    {WithoutCustomer(OrderIn("NEW", PostId, cid, NoItem, q, NoText, NoneV, NoneV)) :
        cid \in CommentIds, q \in Quantities}

InitOrder ==
    /\ post_items \in SeqsUpTo(CatalogItems, MaxCatalog)
    /\ post_orders \in {<<>>, <<EarlierOrder>>}
    /\ orders_last_update_at = 0
    /\ now = 1
    /\ request \in Requests
    /\ response = NoResponse
    /\ pushing = {}
    /\ PriceIdle
    /\ PickIdle
    /\ TokIdle
    /\ DashIdle
    /\ ByUserIdle
    /\ PostIdle
    /\ StatusIdle

\* create_order, lines 372-512: a rejected request raises the HTTPException
\* and writes nothing, as does a request that raises at line 431; an accepted
\* one pushes the document and sets orders_last_update_at in one update_one.
CreateOrder ==
    /\ response.kind = "pending"
    /\ LET code == Rejection(request, post_items, post_orders)
       IN IF code # 0
          THEN /\ response' = HttpError(code)
               /\ UNCHANGED <<post_orders, orders_last_update_at>>
          ELSE IF ReadsUrl(request)
          THEN /\ response' = ServerError
               /\ UNCHANGED <<post_orders, orders_last_update_at>>
          ELSE LET doc == NewOrder(request, post_items, now)
               IN /\ response' = Created(doc)
                  /\ post_orders' = Append(post_orders, doc)
                  /\ orders_last_update_at' = now
    /\ UNCHANGED <<post_items, now, request, pushing>>
    /\ UNCHANGED <<priceVars, pickVars, tokVars, dashVars, byUserVars, postVars, statusVars>>

NextOrder == CreateOrder

SpecOrder == InitOrder /\ [][NextOrder]_vars

\* ----------------------------------------- create_order: what the claims state
Accepted == response.kind = "ok"

\* The item of the post the Item Matcher selects for the type text of the
\* order.
MatcherIndex == pick_item_for_comment(post_items, ItemTypeOf(request)).index

MatchedOf(it) == [name |-> it.name, type |-> it.type]
\* The type text the order carries is a text (not null).
CarriesType == ItemTypeOf(request).tag = "str"

\* C12 as stated: for a post with several items and an order carrying a type
\* text, the stored matched_item is the item pick_item_for_comment selects for
\* that text, and the stored price_calc is compute_min_cost of that item's
\* packs and the requested quantity.
C12_MatcherResolvesItem ==
    (Accepted /\ Len(post_items) >= 2 /\ CarriesType) =>
        /\ response.order.matched_item = MatchedOf(post_items[MatcherIndex])
        /\ response.order.price_calc =
               compute_min_cost(post_items[MatcherIndex].prices,
                                TruncInt(ItemQtyOf(request)))

\* The position body.item.item_id names, when body.item is given and the
\* position exists; the first otherwise.
SelectedIndex ==
    IF request.item.present /\ request.item.item_id.tag = "int"
       /\ request.item.item_id.n \in 0..(Len(post_items) - 1)
    THEN request.item.item_id.n + 1
    ELSE 1

\* C12 amended: the stored matched_item is the name and type of the item at
\* the position item_id of the request selects (the first item without a
\* valid item_id), whatever the type text is, and the stored price_calc is
\* compute_min_cost of that item's packs and the truncated quantity; both are
\* what the post holds as its last order.
C12_ItemChosenByPosition ==
    Accepted =>
        /\ response.order.matched_item = MatchedOf(post_items[SelectedIndex])
        /\ response.order.price_calc =
               compute_min_cost(post_items[SelectedIndex].prices,
                                TruncInt(ItemQtyOf(request)))
        /\ post_orders[Len(post_orders)] = response.order

\* The type text matches the first item only, item_id selects the second, and
\* the second is stored with its own price.
C12_Witness ==
    /\ Accepted
    /\ Len(post_items) = 2
    /\ CarriesType
    /\ MatcherIndex = 1
    /\ ItemTypeOf(request) = post_items[1].type
    /\ request.item.present
    /\ request.item.item_id = IntV(1)
    /\ response.order.matched_item = MatchedOf(post_items[2])
    /\ response.order.matched_item # MatchedOf(post_items[1])
    /\ response.order.price_calc.method = "dp"
    /\ post_items[1].prices = <<>>

\* ------------------------------------------ dashboard: current-month figures
\* C21: the current-month order count is the number of counted orders whose
\* month is the reference month, never more than totalOrders, and the
\* current-month revenue is the monthly bucket of the reference month.
C21_CurrentMonthSlice ==
    Summarized =>
        /\ summary.monthlyOrders =
               Cardinality({i \in CountedIdx : orders[i].parsed_at.month = current_month})
        /\ summary.monthlyOrders <= summary.totalOrders
        /\ summary.monthlyRevenue = summary.monthlyRevenueData[current_month]

\* Two counted orders earn revenue, one of them in the reference month.
C21_Witness ==
    /\ Summarized
    /\ Cardinality(EarningIdx) = 2
    /\ summary.totalOrders = 2
    /\ summary.monthlyOrders = 1
    /\ summary.monthlyRevenue > 0
    /\ summary.monthlyRevenue < summary.totalRevenue
    /\ current_month = 12

\* ------------------------------------------------ create_order: manual prices
\* What compute_min_cost suggests for the chosen item and the truncated
\* quantity.
Suggestion ==
    compute_min_cost(post_items[SelectedIndex].prices, TruncInt(ItemQtyOf(request)))

\* total / qty of the suggestion, in halves.
SuggestedUnitPrice == (4 * Suggestion.total) \div ItemQtyOf(request).n

Answered == response.kind # "pending"

\* C23: create_order on the existing post, a post with an empty items list
\* included, with an existing status_code and a quantity of 1 or more (a
\* customer given, no comment_id used twice) succeeds, and the order returned
\* is in the orders of the post under its order_id.
C23_CreateSucceeds ==
    (/\ Answered
     /\ request.post_id = PostId
     /\ request.status_code \in StatusCodes
     /\ request.customer
     /\ Falsy(request.comment_id)
     /\ ItemQtyOf(request) \in {Halves(2), Halves(4)})
    => /\ Accepted
       /\ \E i \in 1..Len(post_orders) : post_orders[i].order_id = response.order.order_id

\* ----------------------------------------------------------- get_orders_by_user
\* (routers/posts.py)  An order as the handler reads it: the post it is in,
\* customer.fb_uid (Optional[str]), user (absent key, null, or a dict with its
\* fb_uid) and url (Optional[str]).  create_order stores customer as a dict,
\* user as body.user or null, and url as the customer's fb_url or null.
NoUser == [tag |-> "null", fb_uid |-> NoText]
AbsentUser == [tag |-> "absent", fb_uid |-> NoText]
UserDict(u) == [tag |-> "dict", fb_uid |-> u]

UserOrder(pid, cu, us, url) ==
    [post_id |-> pid, customer_fb_uid |-> cu, user |-> us, url |-> url]

\* str.endswith
EndsWith(str, suffix) ==
    /\ Len(str) >= Len(suffix)
    /\ SubSeq(str, Len(str) - Len(suffix) + 1, Len(str)) = suffix

\* f"/{uid}"
SlashUid(u) == <<"/">> \o u

\* Lines 745-751: the post is found when one of its orders has the uid as
\* customer.fb_uid or user.fb_uid, or a url matching the regex /uid$.
QueryMatches(o, u) ==
    \/ o.customer_fb_uid = Text(u)
    \/ (o.user.tag = "dict" /\ o.user.fb_uid = Text(u))
    \/ (o.url.tag = "str" /\ EndsWith(o.url.s, SlashUid(u)))

PostFound(os, pid, u) ==
    \E i \in 1..Len(os) : os[i].post_id = pid /\ QueryMatches(os[i], u)

\* Lines 761-765: customer.fb_uid when it is truthy, else user.fb_uid when it
\* is truthy, else None.
UserFbUid(o) ==
    IF ~Falsy(o.customer_fb_uid) THEN o.customer_fb_uid
    ELSE IF o.user.tag = "dict" /\ ~Falsy(o.user.fb_uid) THEN o.user.fb_uid
    ELSE NoText

\* Line 764 reads order.get("user", {}).get("fb_uid") when customer.fb_uid is
\* falsy: a null user has no get (AttributeError).  Line 768 reads
\* order_url.endswith when user_fb_uid is not the uid: a null url has no
\* endswith (AttributeError).
VisitRaises(o, u) ==
    \/ (Falsy(o.customer_fb_uid) /\ o.user.tag = "null")
    \/ (UserFbUid(o) # Text(u) /\ o.url.tag = "none")

\* Line 768: user_fb_uid == uid or order_url.endswith(f"/{uid}"); an absent
\* url reads as "".
BelongsTo(o, u) ==
    \/ UserFbUid(o) = Text(u)
    \/ (o.url.tag = "str" /\ EndsWith(o.url.s, SlashUid(u)))

\* The posts of the group, in the order the query yields them.
GroupPosts == <<"p1", "p2">>

\* The orders visited: those of the posts found, post by post.
RECURSIVE Visited(_, _, _, _)
Visited(os, u, k, i) ==
    IF k > Len(GroupPosts) THEN <<>>
    ELSE IF i > Len(os) THEN Visited(os, u, k + 1, 1)
    ELSE IF os[i].post_id = GroupPosts[k] /\ PostFound(os, GroupPosts[k], u)
         THEN <<i>> \o Visited(os, u, k, i + 1)
    ELSE Visited(os, u, k, i + 1)

UserOrders(ixs) == [kind |-> "return", orders |-> ixs]
ByUserRaised == [kind |-> "raise", orders |-> <<>>]

\* Lines 733-791: the positions, in the group, of the orders returned.
get_orders_by_user(os, u) ==
    LET seen == Visited(os, u, 1, 1)
    IN IF \E k \in 1..Len(seen) : VisitRaises(os[seen[k]], u)
       THEN ByUserRaised
       ELSE UserOrders(SelectSeq(seen, LAMBDA i : BelongsTo(os[i], u)))

\* The uids, and the orders of the model: of two users, with and without each
\* field; a url of another user's uid that ends with the characters of the
\* uid asked for.
Uids == {<<"1">>}
CustomerUids == {NoText, Text(<<"1">>), Text(<<"2">>)}
OrderUsers == {AbsentUser, NoUser, UserDict(NoText), UserDict(Text(<<"1">>))}
OrderUrls == {NoText, Text(<<"/", "1">>), Text(<<"/", "2">>), Text(<<"/", "2", "1">>)}
UserOrderValues ==
    {UserOrder(pid, cu, us, url) :
        pid \in {"p1", "p2"}, cu \in CustomerUids, us \in OrderUsers, url \in OrderUrls}

InitByUser ==
    /\ group_orders \in SeqsUpTo(UserOrderValues, MaxGroupOrders)
    /\ uid \in Uids
    /\ user_orders = NotAsked
    /\ PriceIdle
    /\ PickIdle
    /\ TokIdle
    /\ DashIdle
    /\ OrderIdle
    /\ PostIdle
    /\ StatusIdle

GetOrdersByUser ==
    /\ user_orders.kind = "pending"
    /\ user_orders' = get_orders_by_user(group_orders, uid)
    /\ UNCHANGED <<group_orders, uid>>
    /\ UNCHANGED <<priceVars, pickVars, tokVars, dashVars, orderVars, postVars, statusVars>>

NextByUser == GetOrdersByUser

SpecByUser == InitByUser /\ [][NextByUser]_vars

\* -------------------------------------- get_orders_by_user: what the claim states
\* The order is the user's: customer or user fb_uid equal to uid, or a url
\* whose last path segment is uid.
OrderOfUser(o) ==
    \/ o.customer_fb_uid = Text(uid)
    \/ (o.user.tag = "dict" /\ o.user.fb_uid = Text(uid))
    \/ (o.url.tag = "str" /\ EndsWith(o.url.s, SlashUid(uid)))

\* C24: get_orders_by_user returns exactly the orders of the group that are
\* the user's, each once: never an order of another user, and the empty list
\* for a uid without orders.
C24_ByUserExact ==
    user_orders.kind # "pending" =>
        /\ user_orders.kind = "return"
        /\ {user_orders.orders[k] : k \in 1..Len(user_orders.orders)} =
               {i \in 1..Len(group_orders) : OrderOfUser(group_orders[i])}
        /\ \A j, k \in 1..Len(user_orders.orders) :
               user_orders.orders[j] = user_orders.orders[k] => j = k

\* ------------------------------------------- list_posts, get_post, patch_post
\* (routers/posts.py)  A stored post: its _id, description and import_price
\* (absent, null or a number).
PostDoc(id, de, ip) == [id |-> id, description |-> de, import_price |-> ip]

\* filter_import_price_for_user keeping the field for every role.
filter_import_price_for_userKeep(d, role) == d

\* Lines 44-53: the copy of the post without import_price unless the role is
\* admin.
filter_import_price_for_user(d, role) ==
    IF role # "admin" THEN [d EXCEPT !.import_price = MissingV] ELSE d

\* PostOut(...) of lines 127-137, 266-274 and 316-324;
\* filtered_d.get("import_price") is None for an absent field.
PostOut(d) ==
    [id |-> d.id, description |-> d.description,
     import_price |-> IF d.import_price.tag = "missing" THEN NoneV ELSE d.import_price]

PostAnswer(out) == [kind |-> "ok", code |-> 200, data |-> out]
PostError(code) == [kind |-> "error", code |-> code, data |-> <<>>]

\* find_one({"_id": post_id}): the position of the post, 0 when there is none.
FindPost(ps, pid) ==
    IF \E k \in 1..Len(ps) : ps[k].id = pid
    THEN CHOOSE k \in 1..Len(ps) : ps[k].id = pid
    ELSE 0

\* list_posts, lines 59-144, without q, on one page.
list_posts(ps, role) ==
    PostAnswer([k \in 1..Len(ps) |-> PostOut(filter_import_price_for_user(ps[k], role))])

\* get_post, lines 250-274.
get_post(ps, role, pid) ==
    IF FindPost(ps, pid) = 0 THEN PostError(404)
    ELSE PostAnswer(<<PostOut(filter_import_price_for_user(ps[FindPost(ps, pid)], role))>>)

\* The body of patch_post: each field set to a value (null included) or unset.
Unset == MissingV
PostPatch(de, ip) == [description |-> de, import_price |-> ip]
NoDescription == "unset"

\* $set of the fields that are set.
SetFields(d, body) ==
    [id |-> d.id,
     description |-> IF body.description = NoDescription THEN d.description
                     ELSE body.description,
     import_price |-> IF body.import_price = Unset THEN d.import_price
                      ELSE body.import_price]

\* update_one({"_id": post_id}, {"$set": update})
UpdatePost(ps, pid, body) ==
    [k \in 1..Len(ps) |-> IF ps[k].id = pid THEN SetFields(ps[k], body) ELSE ps[k]]

\* PatchRejected without the test of the role.
PatchRejectedNoRole(body, role) ==
    IF body.description = NoDescription /\ body.import_price = Unset THEN 400 ELSE 0

\* Lines 284-294: 403 for import_price from a caller who is not admin, 400 for
\* an empty update, 0 otherwise.
PatchRejected(body, role) ==
    IF body.import_price # Unset /\ role # "admin" THEN 403
    ELSE IF body.description = NoDescription /\ body.import_price = Unset THEN 400
    ELSE 0

\* patch_post, lines 277-324: the posts stored afterwards and the response.
patch_post(ps, role, pid, body) ==
    IF PatchRejected(body, role) # 0
    THEN [posts |-> ps, response |-> PostError(PatchRejected(body, role))]
    ELSE [posts |-> UpdatePost(ps, pid, body),
          response |-> get_post(UpdatePost(ps, pid, body), role, pid)]

\* The request: its handler, post_id and body.
PostRequest(op, pid, body) == [op |-> op, post_id |-> pid, body |-> body]

\* The handler applied: the posts stored afterwards and the response.
HandlePost(ps, role, req) ==
    IF req.op = "list_posts" THEN [posts |-> ps, response |-> list_posts(ps, role)]
    ELSE IF req.op = "get_post" THEN [posts |-> ps, response |-> get_post(ps, role, req.post_id)]
    ELSE patch_post(ps, role, req.post_id, req.body)

\* The posts, roles and requests of the model.
PostIds == <<"p1", "p2", "p3">>
ImportPrices == {MissingV, NoneV, IntV(0), IntV(5)}
Descriptions == {"d1", "d2"}
PostsStored ==
    UNION {{[k \in 1..n |-> PostDoc(PostIds[k], f[k][1], f[k][2])] :
               f \in [1..n -> Descriptions \X ImportPrices]} : n \in 0..MaxPosts}
Roles == {"admin", "user"}
PatchBodies == {PostPatch(de, ip) : de \in {NoDescription, "d3"}, ip \in {Unset, NoneV, IntV(9)}}
PostTargets == {PostIds[k] : k \in 1..(MaxPosts + 1)}
PostRequests ==
    {PostRequest("list_posts", PostIds[1], PostPatch(NoDescription, Unset))}
    \cup {PostRequest("get_post", pid, PostPatch(NoDescription, Unset)) : pid \in PostTargets}
    \cup {PostRequest("patch_post", pid, body) : pid \in PostTargets, body \in PatchBodies}

InitPosts ==
    /\ posts \in PostsStored
    /\ posts_after = posts
    /\ user_role \in Roles
    /\ post_request \in PostRequests
    /\ post_response = NoPostResponse
    /\ PriceIdle
    /\ PickIdle
    /\ TokIdle
    /\ DashIdle
    /\ OrderIdle
    /\ ByUserIdle
    /\ StatusIdle

ListPosts ==
    /\ post_response.kind = "pending"
    /\ post_request.op = "list_posts"
    /\ post_response' = list_posts(posts, user_role)
    /\ UNCHANGED <<posts, posts_after, user_role, post_request>>
    /\ UNCHANGED <<priceVars, pickVars, tokVars, dashVars, orderVars, byUserVars, statusVars>>

GetPost ==
    /\ post_response.kind = "pending"
    /\ post_request.op = "get_post"
    /\ post_response' = get_post(posts, user_role, post_request.post_id)
    /\ UNCHANGED <<posts, posts_after, user_role, post_request>>
    /\ UNCHANGED <<priceVars, pickVars, tokVars, dashVars, orderVars, byUserVars, statusVars>>

PatchPost ==
    /\ post_response.kind = "pending"
    /\ post_request.op = "patch_post"
    /\ LET r == patch_post(posts, user_role, post_request.post_id, post_request.body)
       IN /\ posts_after' = r.posts
          /\ post_response' = r.response
    /\ UNCHANGED <<posts, user_role, post_request>>
    /\ UNCHANGED <<priceVars, pickVars, tokVars, dashVars, orderVars, byUserVars, statusVars>>

NextPosts == ListPosts \/ GetPost \/ PatchPost

SpecPosts == InitPosts /\ [][NextPosts]_vars

\* ------------------------------------------ import_price: what the claim states
\* The posts stored, with value v as the import_price of every post.
WithImportPrice(ps, v) == [k \in 1..Len(ps) |-> [ps[k] EXCEPT !.import_price = v]]

PostAnswered == post_response.kind # "pending"

MaxClock == 3

\* The requests on an order, as request keeps the one answered last: the
\* handler and the status code of the body ("" for a body of update_order
\* with status_code "").  The path's post_id and order_id are inputs of the
\* step.
StatusPatch(st) == [kind |-> "status", status_code |-> st]
OrderPatch(st) == [kind |-> "update", status_code |-> st]
OrderDelete == [kind |-> "delete"]

Deleted == [kind |-> "ok", code |-> 200, message |-> "Order deleted successfully"]

\* StatusKnown finding every code.
StatusKnownAny(st) == TRUE

\* Lines 524 and 584: find_one on the statuses collection.
StatusKnown(st) == st \in StatusCodes

\* Whether the orders hold an order of this order_id.
HasOrder(ords, oid) == \E i \in 1..Len(ords) : ords[i].order_id = oid

\* SetStatus leaving the history as it is.
SetStatusOnly(o, st, t) == [o EXCEPT !.status_code = st]

\* Lines 531-538: $set of status_code and $push on status_history.
SetStatus(o, st, t) ==
    [o EXCEPT !.status_code = st,
              !.status_history = Append(@, [status |-> st, at |-> t])]

\* Lines 529-544: the orders after the update_one, array_filters choosing the
\* orders of the order_id.
WithStatus(ords, oid, st, t) ==
    [i \in 1..Len(ords) |->
        IF ords[i].order_id = oid THEN SetStatus(ords[i], st, t) ELSE ords[i]]

\* Lines 818-821: $pull of the orders of the order_id.
RECURSIVE Pulled(_, _)
Pulled(ords, oid) ==
    IF ords = <<>> THEN <<>>
    ELSE IF Head(ords).order_id = oid THEN Pulled(Tail(ords), oid)
    ELSE <<Head(ords)>> \o Pulled(Tail(ords), oid)

\* The bodies of create_order, the items of the post, and the order ids and
\* status codes of the requests on an order.
FlowItem == CatalogItem("x", Text(<<"a">>), <<Dict(IntV(1), IntV(2))>>)
FlowBodies ==
    {OrderIn("NEW", PostId, cid, NoItem, Halves(2), NoText, NoneV, NoneV) :
        cid \in CommentIds}
    \cup
    {OrderIn("DONE", PostId, NoText, NoItem, Halves(2), NoText, NoneV, NoneV),
     OrderIn("BOGUS", PostId, NoText, NoItem, Halves(2), NoText, NoneV, NoneV),
     OrderIn("NEW", "p0", NoText, NoItem, Halves(2), NoText, NoneV, NoneV),
     OrderIn("NEW", PostId, NoText, NoItem, Halves(0), NoText, NoneV, NoneV),
     WithoutCustomer(OrderIn("NEW", PostId, NoText, NoItem, Halves(2), NoText, NoneV, NoneV))}
NoSuchOrder == <<PostId, NoText, 0>>
OrderIds == {post_orders[i].order_id : i \in 1..Len(post_orders)} \cup {NoSuchOrder}
FlowPosts == {PostId, "p0"}
BodyStatuses == StatusCodes \cup {"BOGUS", ""}

InitFlow ==
    /\ post_items \in {<<>>, <<FlowItem>>}
    /\ post_orders = <<>>
    /\ orders_last_update_at = 0
    /\ now = 1
    /\ request = NoRequest
    /\ response = NoResponse
    /\ pushing = {}
    /\ PriceIdle
    /\ PickIdle
    /\ TokIdle
    /\ DashIdle
    /\ ByUserIdle
    /\ PostIdle
    /\ StatusIdle

\* create_order, lines 379-502: the checks on the status, the post, the
\* comment_id, the items and the quantity, and the document built.
CreateOrderCheck ==
    \E body \in FlowBodies :
        /\ now <= MaxClock
        /\ LET code == Rejection(body, post_items, post_orders)
           IN IF code # 0
              THEN /\ request' = body
                   /\ response' = HttpError(code)
                   /\ UNCHANGED <<pushing, now>>
              ELSE IF ReadsUrl(body)
              THEN /\ request' = body
                   /\ response' = ServerError
                   /\ UNCHANGED <<pushing, now>>
              ELSE /\ pushing' = pushing \cup {[body |-> body, doc |-> NewOrder(body, post_items, now)]}
                   /\ now' = now + 1
                   /\ UNCHANGED <<request, response>>
        /\ UNCHANGED <<post_items, post_orders, orders_last_update_at>>
        /\ UNCHANGED <<priceVars, pickVars, tokVars, dashVars, byUserVars, postVars, statusVars>>

\* create_order, lines 505-512: the update_one and the response.
CreateOrderPush ==
    \E p \in pushing :
        /\ post_orders' = Append(post_orders, p.doc)
        /\ orders_last_update_at' = p.doc.parsed_at
        /\ pushing' = pushing \ {p}
        /\ request' = p.body
        /\ response' = Created(p.doc)
        /\ UNCHANGED <<post_items, now>>
        /\ UNCHANGED <<priceVars, pickVars, tokVars, dashVars, byUserVars, postVars, statusVars>>

\* update_order_status, lines 514-571.
UpdateOrderStatus ==
    \E pid \in FlowPosts, oid \in OrderIds, st \in BodyStatuses \ {""} :
        /\ now <= MaxClock
        /\ request' = StatusPatch(st)
        /\ IF ~StatusKnown(st)
           THEN /\ response' = HttpError(400)
                /\ UNCHANGED <<post_orders, now>>
           ELSE IF pid # PostId \/ ~HasOrder(post_orders, oid)
           THEN /\ response' = HttpError(404)
                /\ now' = now + 1
                /\ UNCHANGED post_orders
           ELSE /\ post_orders' = WithStatus(post_orders, oid, st, now)
                /\ now' = now + 1
                /\ response' = Created(CHOOSE o \in {post_orders'[i] : i \in 1..Len(post_orders)} :
                                            o.order_id = oid)
        /\ UNCHANGED <<post_items, orders_last_update_at, pushing>>
        /\ UNCHANGED <<priceVars, pickVars, tokVars, dashVars, byUserVars, postVars, statusVars>>

\* update_order, lines 573-620: the checks, and the read of body.url, a field
\* OrderIn has not: AttributeError before any update.
UpdateOrder ==
    \E pid \in FlowPosts, oid \in OrderIds, st \in BodyStatuses :
        /\ request' = OrderPatch(st)
        /\ response' = IF st # "" /\ ~StatusKnown(st) THEN HttpError(400)
                       ELSE IF pid # PostId \/ ~HasOrder(post_orders, oid) THEN HttpError(404)
                       ELSE ServerError
        /\ UNCHANGED <<post_items, post_orders, orders_last_update_at, now, pushing>>
        /\ UNCHANGED <<priceVars, pickVars, tokVars, dashVars, byUserVars, postVars, statusVars>>

\* delete_order, lines 794-829.
DeleteOrder ==
    \E pid \in FlowPosts, oid \in OrderIds :
        /\ request' = OrderDelete
        /\ IF pid # PostId \/ ~HasOrder(post_orders, oid)
           THEN /\ response' = HttpError(404)
                /\ UNCHANGED post_orders
           ELSE /\ response' = Deleted
                /\ post_orders' = Pulled(post_orders, oid)
        /\ UNCHANGED <<post_items, orders_last_update_at, now, pushing>>
        /\ UNCHANGED <<priceVars, pickVars, tokVars, dashVars, byUserVars, postVars, statusVars>>

NextFlow ==
    \/ CreateOrderCheck
    \/ CreateOrderPush
    \/ UpdateOrderStatus
    \/ UpdateOrder
    \/ DeleteOrder

SpecFlow == InitFlow /\ [][NextFlow]_vars

\* ------------------------------------------ order requests: what the claims state
\* C26: no two orders of the post have the same comment_id, null aside.
C26_NoDuplicateComments ==
    \A i, j \in 1..Len(post_orders) :
        (i # j /\ ~Falsy(post_orders[i].comment_id))
        => post_orders[i].comment_id # post_orders[j].comment_id

\* The last entry of a sequence.
Last(sq) == sq[Len(sq)]

\* C27: every order stored has a status_history that is not empty and whose
\* last entry has the status_code of the order.
C27_HistoryTracksStatus ==
    \A i \in 1..Len(post_orders) :
        /\ Len(post_orders[i].status_history) > 0
        /\ Last(post_orders[i].status_history).status = post_orders[i].status_code

\* An order whose status was changed after its creation.
C27_Witness ==
    \E i \in 1..Len(post_orders) :
        /\ Len(post_orders[i].status_history) = 2
        /\ post_orders[i].status_history[1].status = "NEW"
        /\ post_orders[i].status_code = "DONE"

\* The step answers a request.
AnswersRequest == <<request, response>>' # <<request, response>>

\* The step leaves the orders and orders_last_update_at of the post as they are.
StoreUnchanged == UNCHANGED <<post_orders, orders_last_update_at>>

MutationTimes ==
    UNION {{post_orders[i].status_history[k].at : k \in 1..Len(post_orders[i].status_history)} :
            i \in 1..Len(post_orders)}

\* C30: orders_last_update_at is not older than any change of the orders.
C30_LastUpdateCurrent == \A t \in MutationTimes : orders_last_update_at >= t


\* -------------------------------- create_status, update_status, delete_status
\* (routers/statuses.py)  The collection is a sequence of documents in
\* insertion order, the order find_one, update_one and delete_one take their
\* first match in; a document keeps the status_code and display_name of
\* StatusIn.  create_status looks for the code with find_one and inserts in a
\* later insert_one; inserting holds the bodies between the two.
MaxStatuses == 3

StatusIn(code, name) == [status_code |-> code, display_name |-> name]

StatusOut(d) == [kind |-> "ok", code |-> 200, status |-> d]
StatusError(code) == [kind |-> "error", code |-> code]
StatusDeleted == [kind |-> "ok", code |-> 200, ok |-> TRUE]

\* The positions of the documents of a status_code.
Matching(col, code) == {i \in 1..Len(col) : col[i].status_code = code}

\* find_one({"status_code": code}) finds a document.
Found(col, code) == Matching(col, code) # {}

\* The first match.
FirstMatch(col, code) == CHOOSE i \in Matching(col, code) : \A j \in Matching(col, code) : i <= j

\* Line 92: update_one({"status_code": code}, {"$set": body.model_dump()});
\* the body has every field of StatusIn, status_code included.
UpdateOne(col, code, body) ==
    IF Found(col, code) THEN [col EXCEPT ![FirstMatch(col, code)] = body] ELSE col

\* Line 112: delete_one({"status_code": code})
DeleteOne(col, code) ==
    LET k == FirstMatch(col, code)
    IN [i \in 1..(Len(col) - 1) |-> IF i < k THEN col[i] ELSE col[i + 1]]

StatusCodeValues == {"NEW", "DONE"}
DisplayNames == {"x", "y"}
StatusBodies == {StatusIn(c, n) : c \in StatusCodeValues, n \in DisplayNames}

StatusRequest(op, code, body) == [op |-> op, status_code |-> code, body |-> body]
NoBody == [status_code |-> "", display_name |-> ""]

\* The collection starts with one document for each of its codes.
InitStatus ==
    /\ statuses \in {<<>>, <<StatusIn("NEW", "x")>>,
                     <<StatusIn("NEW", "x"), StatusIn("DONE", "y")>>}
    /\ inserting = {}
    /\ status_request = NoStatusRequest
    /\ status_response = NoStatusResponse
    /\ PriceIdle
    /\ PickIdle
    /\ TokIdle
    /\ DashIdle
    /\ OrderIdle
    /\ ByUserIdle
    /\ PostIdle

\* create_status, lines 70-72: find_one, and 409 for a code found.
CreateStatusFind ==
    \E body \in StatusBodies :
        /\ IF Found(statuses, body.status_code)
           THEN /\ status_request' = StatusRequest("create", body.status_code, body)
                /\ status_response' = StatusError(409)
                /\ UNCHANGED inserting
           ELSE /\ Len(statuses) + Cardinality(inserting) < MaxStatuses
                /\ inserting' = inserting \cup {body}
                /\ UNCHANGED <<status_request, status_response>>
        /\ UNCHANGED statuses
        /\ UNCHANGED <<priceVars, pickVars, tokVars, dashVars, orderVars, byUserVars, postVars>>

\* create_status, lines 73-82: insert_one and the response.
CreateStatusInsert ==
    \E body \in inserting :
        /\ statuses' = Append(statuses, body)
        /\ inserting' = inserting \ {body}
        /\ status_request' = StatusRequest("create", body.status_code, body)
        /\ status_response' = StatusOut(body)
        /\ UNCHANGED <<priceVars, pickVars, tokVars, dashVars, orderVars, byUserVars, postVars>>

\* update_status, lines 85-103: update_one, then find_one on the code of the
\* path.
UpdateStatus ==
    \E code \in StatusCodeValues, body \in StatusBodies :
        /\ statuses' = UpdateOne(statuses, code, body)
        /\ status_request' = StatusRequest("update", code, body)
        /\ status_response' = IF Found(statuses', code)
                              THEN StatusOut(statuses'[FirstMatch(statuses', code)])
                              ELSE StatusError(404)
        /\ UNCHANGED inserting
        /\ UNCHANGED <<priceVars, pickVars, tokVars, dashVars, orderVars, byUserVars, postVars>>

\* delete_status, lines 106-115.
DeleteStatus ==
    \E code \in StatusCodeValues :
        /\ status_request' = StatusRequest("delete", code, NoBody)
        /\ IF Found(statuses, code)
           THEN /\ statuses' = DeleteOne(statuses, code)
                /\ status_response' = StatusDeleted
           ELSE /\ status_response' = StatusError(404)
                /\ UNCHANGED statuses
        /\ UNCHANGED inserting
        /\ UNCHANGED <<priceVars, pickVars, tokVars, dashVars, orderVars, byUserVars, postVars>>

NextStatus ==
    \/ CreateStatusFind
    \/ CreateStatusInsert
    \/ UpdateStatus
    \/ DeleteStatus

SpecStatus == InitStatus /\ [][NextStatus]_vars

\* ----------------------------------------------- statuses: what the claim states
\* C29: no two documents of the statuses collection have the same status_code.
C29_StatusCodeUnique ==
    \A i, j \in 1..Len(statuses) :
        i # j => statuses[i].status_code # statuses[j].status_code

====
